---- MODULE Spec2Model ----
(***************************************************************************)
(* Model of the merge queue throughput simulator (simulator.py).          *)
(*                                                                         *)
(* main() validates the two probabilities, logs a header and then calls   *)
(* simulate_throughput() once per queue size; simulate_throughput() runs  *)
(* rounds until the time budget is used up and aggregates the totals.     *)
(*                                                                         *)
(* Numbers.  Probabilities and the values returned by random.random() are *)
(* counted in units of 1/ProbDen: a draw is one of 0 .. ProbDen-1 (the    *)
(* half-open interval [0,1), 0.0 included), a probability given on the    *)
(* command line is one of -1 .. ProbDen+1 (so -1 and ProbDen+1 lie        *)
(* outside [0,1]).  A wait time is the exact fraction <<num, den>> in     *)
(* lowest terms; a value rounded to one decimal is counted in tenths.     *)
(* Durations and queue sizes are the positive ones the simulation core    *)
(* is specified for.                                                       *)
(***************************************************************************)
EXTENDS Integers, Sequences, FiniteSets, TLC

\* ---- bounds of the model ----
MaxQueue == 2
MaxSimHours == 1
MinJobDuration == 59
JobSpread == 1
ProbDen == 3
MaxOverflow == 1
MaxPairQueue == 3
MaxPairHours == 2

VARIABLES
    args,                   \* the parsed command line (argparse namespace)
    pc,                     \* position in main / simulate_throughput
    exception,              \* the exception that left main, or "none"
    header,                 \* TRUE once the header block has been logged
    rows,                   \* the table rows logged so far
    queue_sizes,            \* main: the range of queue sizes
    idx,                    \* main: number of queue sizes taken from the range
    calls,                  \* the argument tuples simulate_throughput was called with
    queue_size,             \* simulate_throughput: parameters
    sim_duration,
    job_duration,
    failure_probability,
    jobs_waiting_to_enter,
    jobs_waiting_to_enter_probability,
    total_jobs_completed,   \* simulate_throughput: accumulators
    total_time,
    total_jobs_lost,
    wait_times,
    jobs_completed,         \* simulate_throughput: completions of the current round
    slot,                   \* simulate_throughput: the slot the scan is at
    outcomes,               \* jobs_completed of every finished round of this call
    result,                 \* the tuple returned by the last call
    random_draws,           \* values consumed from the module-level generator
    drawn,                  \* the values drawn for the slots of the current round
    pair                    \* two calls fed by the same seed (PairSpec only)

vars == <<args, pc, exception, header, rows, queue_sizes, idx, calls,
          queue_size, sim_duration, job_duration, failure_probability,
          jobs_waiting_to_enter, jobs_waiting_to_enter_probability,
          total_jobs_completed, total_time, total_jobs_lost, wait_times,
          jobs_completed, slot, outcomes, result, random_draws, drawn, pair>>

mainVars == <<args, exception, header, rows, queue_sizes, idx, calls, result>>

paramVars == <<queue_size, sim_duration, job_duration, failure_probability,
               jobs_waiting_to_enter, jobs_waiting_to_enter_probability>>

accVars == <<total_jobs_completed, total_time, total_jobs_lost, wait_times>>

\* ---- value sets ----
Draws == 0 .. (ProbDen - 1)

Probabilities == (0 - 1) .. (ProbDen + 1)

JobDurations == MinJobDuration .. (MinJobDuration + JobSpread)

Args ==
    [job_duration : JobDurations,
     failure_probability : Probabilities,
     max_queue_size : 0 .. MaxQueue,
     min_queue_size : 1 .. MaxQueue,
     sim_duration : 1 .. MaxSimHours,
     jobs_waiting_to_enter : 0 .. MaxOverflow,
     jobs_waiting_to_enter_probability : Probabilities]

\* ---- arithmetic helpers ----
RECURSIVE GCD(_, _)
GCD(a, b) == IF b = 0 THEN a ELSE GCD(b, a % b)

\* the fraction n/d (d > 0) in lowest terms
Frac(n, d) == LET g == GCD(n, d) IN <<n \div g, d \div g>>

AddFrac(x, y) == Frac(x[1] * y[2] + y[1] * x[2], x[2] * y[2])

LessEqFrac(x, y) == x[1] * y[2] <= y[1] * x[2]

\* round(n/d) to the nearest integer, ties to the even one (Python's round)
RoundHalfEven(n, d) ==
    LET q == n \div d
        r == n % d
    IN  IF 2 * r < d THEN q
        ELSE IF 2 * r > d THEN q + 1
        ELSE IF q % 2 = 0 THEN q ELSE q + 1

\* round(x, 1) of the fraction x, in tenths
Round1(x) == RoundHalfEven(10 * x[1], x[2])

RECURSIVE SumFrac(_)
SumFrac(s) == IF s = <<>> THEN <<0, 1>> ELSE AddFrac(Head(s), SumFrac(Tail(s)))

\* statistics.mean
Mean(s) == LET t == SumFrac(s) IN Frac(t[1], t[2] * Len(s))

RECURSIVE Insert(_, _)
Insert(x, s) ==
    IF s = <<>> THEN <<x>>
    ELSE IF LessEqFrac(x, Head(s)) THEN <<x>> \o s
    ELSE <<Head(s)>> \o Insert(x, Tail(s))

RECURSIVE Sorted(_)
Sorted(s) == IF s = <<>> THEN <<>> ELSE Insert(Head(s), Sorted(Tail(s)))

\* statistics.median
Median(s) ==
    LET t == Sorted(s)
        n == Len(s)
    IN  IF n % 2 = 1 THEN t[(n + 1) \div 2]
        ELSE LET m == AddFrac(t[n \div 2], t[n \div 2 + 1])
             IN  Frac(m[1], m[2] * 2)

\* ---- the decisions of simulate_throughput ----
\* mutant: a loop that also runs when the budget is exactly used up
LoopCondInclusive(time, budget) == time <= budget

\* line 39: the loop runs while the budget is not used up
LoopCond(time, budget) == time < budget

\* mutant: the comparison is the wrong way round
JobFailsAbove(draw, probability) == draw >= probability

\* mutant: a draw equal to the probability lets the job complete
JobFailsBelow(draw, probability) == draw < probability

\* line 46: the slot fails when the draw is at or below the probability
JobFails(draw, probability) == draw <= probability

\* mutant: the bounced job itself is not counted as lost
JobsLostButOne(size, completed) == size - completed - 1

\* line 56: jobs lost in a round
JobsLost(size, completed) == size - completed

\* mutant: a round with a single completion yields no wait time
RecordsWaitTimeAboveOne(completed) == completed > 1

\* line 62: a round yields a wait time only when a job completed
RecordsWaitTime(completed) == completed > 0

\* line 68: extra jobs are waiting when the draw is at or below the probability
JobsAreWaiting(draw, probability) == draw <= probability

\* mutant: the waiting jobs are never added to the line
JobsInLineWithoutWaiting(size, waiting, isWaiting) == size

\* lines 64-69: the jobs in line of a round
JobsInLine(size, waiting, isWaiting) == IF isWaiting THEN size + waiting ELSE size

\* mutant: jobs_in_line / (jobs_completed * job_duration)
WaitTimeTimesDuration(inLine, completed, duration) == Frac(inLine, completed * duration)

\* line 73: jobs_in_line / (jobs_completed / job_duration)
WaitTime(inLine, completed, duration) == Frac(inLine * duration, completed)

\* lines 77 and 80: round(total / (total_time / 60), 1), in tenths
RatePerHour(total, time) == Round1(Frac(total * 60, time))

\* mutant: only the lower end of [0,1] is checked
OutOfRangeBelow(probability) == probability < 0

\* lines 111 and 114: the probability is outside [0,1]
OutOfRange(probability) == probability < 0 \/ probability > ProbDen

\* mutant: range(min_queue_size, max_queue_size, 1)
RangeExclusive(lo, hi) == [i \in 1 .. (IF hi > lo THEN hi - lo ELSE 0) |-> lo + i - 1]

\* line 118: range(min_queue_size, max_queue_size + 1, 1)
Range(lo, hi) == [i \in 1 .. (IF hi >= lo THEN hi - lo + 1 ELSE 0) |-> lo + i - 1]

\* lines 132-137: the arguments main passes to simulate_throughput
CallArgs(a, size) ==
    <<size, a.sim_duration * 60, a.job_duration, a.failure_probability,
      a.jobs_waiting_to_enter, a.jobs_waiting_to_enter_probability>>

\* ---- initial state: main() has parsed its arguments ----
Init ==
    /\ args \in Args
    /\ pc = "validate"
    /\ exception = "none"
    /\ header = FALSE
    /\ rows = <<>>
    /\ queue_sizes = <<>>
    /\ idx = 0
    /\ calls = <<>>
    /\ queue_size = 0
    /\ sim_duration = 0
    /\ job_duration = 0
    /\ failure_probability = 0
    /\ jobs_waiting_to_enter = 0
    /\ jobs_waiting_to_enter_probability = 0
    /\ total_jobs_completed = 0
    /\ total_time = 0
    /\ total_jobs_lost = 0
    /\ wait_times = <<>>
    /\ jobs_completed = 0
    /\ slot = 0
    /\ outcomes = <<>>
    /\ result = <<>>
    /\ random_draws = 0
    /\ drawn = <<>>
    /\ pair = <<>>

\* ---- main ----
\* lines 111-112
RaiseFailureProbability ==
    /\ pc = "validate"
    /\ OutOfRange(args.failure_probability)
    /\ exception' = "ValueError"
    /\ pc' = "raised"
    /\ UNCHANGED <<args, header, rows, queue_sizes, idx, calls, result,
                   paramVars, accVars, jobs_completed, slot, outcomes, random_draws>>
    /\ UNCHANGED <<drawn, pair>>

\* lines 114-115
RaiseWaitingProbability ==
    /\ pc = "validate"
    /\ ~OutOfRange(args.failure_probability)
    /\ OutOfRange(args.jobs_waiting_to_enter_probability)
    /\ exception' = "ValueError"
    /\ pc' = "raised"
    /\ UNCHANGED <<args, header, rows, queue_sizes, idx, calls, result,
                   paramVars, accVars, jobs_completed, slot, outcomes, random_draws>>
    /\ UNCHANGED <<drawn, pair>>

\* lines 117-128: the range of queue sizes and the header block
Header ==
    /\ pc = "validate"
    /\ ~OutOfRange(args.failure_probability)
    /\ ~OutOfRange(args.jobs_waiting_to_enter_probability)
    /\ queue_sizes' = Range(args.min_queue_size, args.max_queue_size)
    /\ header' = TRUE
    /\ pc' = "for"
    /\ UNCHANGED <<args, exception, rows, idx, calls, result,
                   paramVars, accVars, jobs_completed, slot, outcomes, random_draws>>
    /\ UNCHANGED <<drawn, pair>>

\* mutant: the list of wait times outlives the call (a shared default list)
CallKeepingWaitTimes ==
    /\ pc = "for"
    /\ idx < Len(queue_sizes)
    /\ LET a == CallArgs(args, queue_sizes[idx + 1])
       IN  /\ calls' = Append(calls, a)
           /\ queue_size' = a[1]
           /\ sim_duration' = a[2]
           /\ job_duration' = a[3]
           /\ failure_probability' = a[4]
           /\ jobs_waiting_to_enter' = a[5]
           /\ jobs_waiting_to_enter_probability' = a[6]
    /\ idx' = idx + 1
    /\ total_jobs_completed' = 0
    /\ total_time' = 0
    /\ total_jobs_lost' = 0
    /\ outcomes' = <<>>
    /\ pc' = "while"
    /\ UNCHANGED <<args, exception, header, rows, queue_sizes, result,
                   wait_times, jobs_completed, slot, random_draws>>
    /\ UNCHANGED <<drawn, pair>>

\* lines 130-137 and 31-36: the next queue size, the call and its fresh accumulators
Call ==
    /\ pc = "for"
    /\ idx < Len(queue_sizes)
    /\ LET a == CallArgs(args, queue_sizes[idx + 1])
       IN  /\ calls' = Append(calls, a)
           /\ queue_size' = a[1]
           /\ sim_duration' = a[2]
           /\ job_duration' = a[3]
           /\ failure_probability' = a[4]
           /\ jobs_waiting_to_enter' = a[5]
           /\ jobs_waiting_to_enter_probability' = a[6]
    /\ idx' = idx + 1
    /\ total_jobs_completed' = 0
    /\ total_time' = 0
    /\ total_jobs_lost' = 0
    /\ wait_times' = <<>>
    /\ outcomes' = <<>>
    /\ pc' = "while"
    /\ UNCHANGED <<args, exception, header, rows, queue_sizes, result,
                   jobs_completed, slot, random_draws>>
    /\ UNCHANGED <<drawn, pair>>

\* lines 130 and 140: the range is exhausted, main returns
Finish ==
    /\ pc = "for"
    /\ idx >= Len(queue_sizes)
    /\ pc' = "done"
    /\ UNCHANGED <<mainVars, paramVars, accVars, jobs_completed, slot, outcomes,
                   random_draws>>
    /\ UNCHANGED <<drawn, pair>>

\* line 138: the row of the queue size just simulated
Row ==
    /\ pc = "row"
    /\ rows' = Append(rows, <<queue_size, result[1], result[3], result[4], result[2]>>)
    /\ pc' = "for"
    /\ UNCHANGED <<args, exception, header, queue_sizes, idx, calls, result,
                   paramVars, accVars, jobs_completed, slot, outcomes, random_draws>>
    /\ UNCHANGED <<drawn, pair>>

\* ---- simulate_throughput ----
\* lines 39-41: another round starts
StartRound ==
    /\ pc = "while"
    /\ LoopCond(total_time, sim_duration)
    /\ jobs_completed' = 0
    /\ slot' = 1
    /\ pc' = "scan"
    /\ UNCHANGED <<mainVars, paramVars, accVars, outcomes, random_draws>>
    /\ UNCHANGED <<drawn, pair>>

\* line 39: the budget is used up
ExitLoop ==
    /\ pc = "while"
    /\ ~LoopCond(total_time, sim_duration)
    /\ pc' = "aggregate"
    /\ UNCHANGED <<mainVars, paramVars, accVars, jobs_completed, slot, outcomes,
                   random_draws>>
    /\ UNCHANGED <<drawn, pair>>

\* lines 44-47: the slot's draw fails the job, the scan stops
ScanFail ==
    /\ pc = "scan"
    /\ slot <= queue_size
    /\ \E draw \in Draws :
         /\ JobFails(draw, failure_probability)
         /\ drawn' = Append(drawn, draw)
    /\ random_draws' = random_draws + 1
    /\ pc' = "account"
    /\ UNCHANGED <<mainVars, paramVars, accVars, jobs_completed, slot, outcomes>>
    /\ UNCHANGED pair

\* lines 44-51: the slot's draw lets the job complete
ScanComplete ==
    /\ pc = "scan"
    /\ slot <= queue_size
    /\ \E draw \in Draws :
         /\ ~JobFails(draw, failure_probability)
         /\ drawn' = Append(drawn, draw)
    /\ random_draws' = random_draws + 1
    /\ jobs_completed' = jobs_completed + 1
    /\ slot' = slot + 1
    /\ UNCHANGED <<mainVars, paramVars, accVars, pc, outcomes>>
    /\ UNCHANGED pair

\* line 44: every slot was scanned
ScanEnd ==
    /\ pc = "scan"
    /\ slot > queue_size
    /\ pc' = "account"
    /\ UNCHANGED <<mainVars, paramVars, accVars, jobs_completed, slot, outcomes,
                   random_draws>>
    /\ UNCHANGED <<drawn, pair>>

\* mutant: a round in which the first job was bounced is skipped altogether
AccountSkippingBounce ==
    /\ pc = "account"
    /\ ~RecordsWaitTime(jobs_completed)
    /\ pc' = "while"
    /\ drawn' = <<>>
    /\ UNCHANGED <<mainVars, paramVars, accVars, jobs_completed, slot, outcomes,
                   random_draws, pair>>

\* mutant: the overflow draw is made in every round, bounced or not
AccountDrawing ==
    /\ pc = "account"
    /\ ~RecordsWaitTime(jobs_completed)
    /\ total_jobs_completed' = total_jobs_completed + jobs_completed
    /\ total_jobs_lost' = total_jobs_lost + JobsLost(queue_size, jobs_completed)
    /\ total_time' = total_time + job_duration
    /\ outcomes' = Append(outcomes, jobs_completed)
    /\ random_draws' = random_draws + 1
    /\ pc' = "while"
    /\ drawn' = <<>>
    /\ UNCHANGED <<mainVars, paramVars, wait_times, jobs_completed, slot, pair>>

\* lines 55-62: the totals of a round in which the first job was bounced
Account ==
    /\ pc = "account"
    /\ ~RecordsWaitTime(jobs_completed)
    /\ total_jobs_completed' = total_jobs_completed + jobs_completed
    /\ total_jobs_lost' = total_jobs_lost + JobsLost(queue_size, jobs_completed)
    /\ total_time' = total_time + job_duration
    /\ outcomes' = Append(outcomes, jobs_completed)
    /\ pc' = "while"
    /\ UNCHANGED <<mainVars, paramVars, wait_times, jobs_completed, slot, random_draws>>
    /\ drawn' = <<>>
    /\ UNCHANGED pair

\* lines 55-73: the totals of a round, the overflow draw and the round's wait time
AccountAndSample ==
    /\ pc = "account"
    /\ RecordsWaitTime(jobs_completed)
    /\ total_jobs_completed' = total_jobs_completed + jobs_completed
    /\ total_jobs_lost' = total_jobs_lost + JobsLost(queue_size, jobs_completed)
    /\ total_time' = total_time + job_duration
    /\ outcomes' = Append(outcomes, jobs_completed)
    /\ \E draw \in Draws :
         LET jobs_in_line == JobsInLine(queue_size, jobs_waiting_to_enter,
                                 JobsAreWaiting(draw, jobs_waiting_to_enter_probability))
         IN  wait_times' = Append(wait_times,
                                  WaitTime(jobs_in_line, jobs_completed, job_duration))
    /\ random_draws' = random_draws + 1
    /\ pc' = "while"
    /\ UNCHANGED <<mainVars, paramVars, jobs_completed, slot>>
    /\ drawn' = <<>>
    /\ UNCHANGED pair

\* mutant: an empty list of wait times yields zeros instead of an error
ReturnPlaceholder ==
    /\ pc = "aggregate"
    /\ wait_times = <<>>
    /\ result' = <<RatePerHour(total_jobs_completed, total_time),
                   RatePerHour(total_jobs_lost, total_time), 0, 0>>
    /\ pc' = "row"
    /\ UNCHANGED <<args, exception, header, rows, queue_sizes, idx, calls,
                   paramVars, accVars, jobs_completed, slot, outcomes, random_draws>>
    /\ UNCHANGED <<drawn, pair>>

\* mutant: an empty list of wait times skips the row and the sweep goes on
SkipRow ==
    /\ pc = "aggregate"
    /\ wait_times = <<>>
    /\ pc' = "for"
    /\ UNCHANGED <<mainVars, paramVars, accVars, jobs_completed, slot, outcomes,
                   random_draws>>
    /\ UNCHANGED <<drawn, pair>>

\* lines 77-83: statistics.mean raises on the empty list of wait times
RaiseNoData ==
    /\ pc = "aggregate"
    /\ wait_times = <<>>
    /\ exception' = "StatisticsError"
    /\ pc' = "raised"
    /\ UNCHANGED <<args, header, rows, queue_sizes, idx, calls, result,
                   paramVars, accVars, jobs_completed, slot, outcomes, random_draws>>
    /\ UNCHANGED <<drawn, pair>>

\* lines 77-88: the result tuple
Return ==
    /\ pc = "aggregate"
    /\ wait_times # <<>>
    /\ result' = <<RatePerHour(total_jobs_completed, total_time),
                   RatePerHour(total_jobs_lost, total_time),
                   Round1(Mean(wait_times)),
                   Round1(Median(wait_times))>>
    /\ pc' = "row"
    /\ UNCHANGED <<args, exception, header, rows, queue_sizes, idx, calls,
                   paramVars, accVars, jobs_completed, slot, outcomes, random_draws>>
    /\ UNCHANGED <<drawn, pair>>

Next ==
    \/ RaiseFailureProbability
    \/ RaiseWaitingProbability
    \/ Header
    \/ Call
    \/ Finish
    \/ Row
    \/ StartRound
    \/ ExitLoop
    \/ ScanFail
    \/ ScanComplete
    \/ ScanEnd
    \/ Account
    \/ AccountAndSample
    \/ RaiseNoData
    \/ Return

Spec == Init /\ [][Next]_vars

\* the interpreter keeps executing the program: a step that can be taken is taken
FairSpec == Spec /\ WF_vars(Next)

\* ---- two calls of simulate_throughput fed by the same seed ----
\* Both calls get the same arguments except failure_probability and read the
\* same sequence of values from the generator: the n-th value a call consumes is
\* the n-th value of the sequence.  pair.stream holds the values one call has
\* already consumed and the other has not yet; pair.low and pair.high hold the
\* locals of the call with the smaller and the larger failure_probability.
PairInputs ==
    [queue_size : 1 .. MaxPairQueue,
     sim_duration : {60 * h : h \in 1 .. MaxPairHours},
     job_duration : JobDurations,
     jobs_waiting_to_enter : 0 .. MaxOverflow,
     jobs_waiting_to_enter_probability : {ProbDen}]

\* lines 31-36: the locals of a call that starts
RunStart(probability) ==
    [failure_probability |-> probability,
     pc |-> "while",
     total_jobs_completed |-> 0,
     total_time |-> 0,
     total_jobs_lost |-> 0,
     wait_times |-> <<>>,
     jobs_completed |-> 0,
     slot |-> 0,
     outcomes |-> <<>>,
     random_draws |-> 0,
     throughput |-> 0]

\* lines 46 and 68: the step the call is at consumes a value of the generator
RunDraws(run, in) ==
    \/ run.pc = "scan" /\ run.slot <= in.queue_size
    \/ run.pc = "account" /\ RecordsWaitTime(run.jobs_completed)

\* lines 39-88: one step of a call, `draw` being the value it consumes if any
RunStep(run, in, draw) ==
    CASE run.pc = "while" ->
           IF LoopCond(run.total_time, in.sim_duration)
           THEN [run EXCEPT !.jobs_completed = 0, !.slot = 1, !.pc = "scan"]
           ELSE [run EXCEPT !.pc = "aggregate"]
      [] run.pc = "scan" ->
           IF run.slot > in.queue_size
           THEN [run EXCEPT !.pc = "account"]
           ELSE IF JobFails(draw, run.failure_probability)
           THEN [run EXCEPT !.random_draws = @ + 1, !.pc = "account"]
           ELSE [run EXCEPT !.random_draws = @ + 1,
                            !.jobs_completed = @ + 1,
                            !.slot = @ + 1]
      [] run.pc = "account" ->
           LET r == [run EXCEPT
                       !.total_jobs_completed = @ + run.jobs_completed,
                       !.total_jobs_lost = @ + JobsLost(in.queue_size, run.jobs_completed),
                       !.total_time = @ + in.job_duration,
                       !.outcomes = Append(@, run.jobs_completed),
                       !.pc = "while"]
           IN  IF RecordsWaitTime(run.jobs_completed)
               THEN LET jobs_in_line ==
                          JobsInLine(in.queue_size, in.jobs_waiting_to_enter,
                              JobsAreWaiting(draw, in.jobs_waiting_to_enter_probability))
                    IN  [r EXCEPT
                           !.random_draws = @ + 1,
                           !.wait_times = Append(@, WaitTime(jobs_in_line,
                                              run.jobs_completed, in.job_duration))]
               ELSE r
      [] run.pc = "aggregate" ->
           IF run.wait_times = <<>>
           THEN [run EXCEPT !.pc = "raised"]
           ELSE [run EXCEPT !.pc = "returned",
                            !.throughput = RatePerHour(run.total_jobs_completed,
                                                       run.total_time)]

RunOver(run) == run.pc \in {"returned", "raised"}

\* the call has left its loop
LoopLeft(run) == run.pc \in {"aggregate", "returned", "raised"}

Other(name) == IF name = "low" THEN "high" ELSE "low"

Min(a, b) == IF a <= b THEN a ELSE b

\* the two calls are separate runs of the program: they are stepped round by
\* round, the call with the smaller probability first
PairTurn(name) ==
    /\ ~RunOver(pair[name])
    /\ IF name = "low"
       THEN RunOver(pair.high) \/ Len(pair.low.outcomes) <= Len(pair.high.outcomes)
       ELSE RunOver(pair.low) \/ Len(pair.high.outcomes) < Len(pair.low.outcomes)

PairInit ==
    /\ \E in \in PairInputs : \E lo, hi \in 0 .. ProbDen :
         /\ lo < hi
         /\ pair = [in |-> in, stream |-> <<>>,
                    low |-> RunStart(lo), high |-> RunStart(hi)]
    /\ args = <<>>
    /\ pc = "pair"
    /\ exception = "none"
    /\ header = FALSE
    /\ rows = <<>>
    /\ queue_sizes = <<>>
    /\ idx = 0
    /\ calls = <<>>
    /\ queue_size = 0
    /\ sim_duration = 0
    /\ job_duration = 0
    /\ failure_probability = 0
    /\ jobs_waiting_to_enter = 0
    /\ jobs_waiting_to_enter_probability = 0
    /\ total_jobs_completed = 0
    /\ total_time = 0
    /\ total_jobs_lost = 0
    /\ wait_times = <<>>
    /\ jobs_completed = 0
    /\ slot = 0
    /\ outcomes = <<>>
    /\ result = <<>>
    /\ random_draws = 0
    /\ drawn = <<>>

\* a step of one of the two calls; a value the other call consumed already is
\* read from pair.stream, a value beyond it is a new value of the generator
PairStep(name) ==
    /\ pc = "pair"
    /\ PairTurn(name)
    /\ LET run == pair[name]
           base == Min(pair.low.random_draws, pair.high.random_draws)
           at == run.random_draws - base + 1
       IN  \E draw \in Draws :
             /\ (RunDraws(run, pair.in) /\ at <= Len(pair.stream)) => draw = pair.stream[at]
             /\ ~RunDraws(run, pair.in) => draw = 0
             /\ LET next == RunStep(run, pair.in, draw)
                    seen == IF RunDraws(run, pair.in) /\ at > Len(pair.stream)
                            THEN Append(pair.stream, draw) ELSE pair.stream
                    drop == Min(next.random_draws, pair[Other(name)].random_draws) - base
                IN  pair' = [pair EXCEPT ![name] = next,
                                         !.stream = SubSeq(seen, drop + 1, Len(seen))]
    /\ UNCHANGED <<args, pc, exception, header, rows, queue_sizes, idx, calls,
                   queue_size, sim_duration, job_duration, failure_probability,
                   jobs_waiting_to_enter, jobs_waiting_to_enter_probability,
                   total_jobs_completed, total_time, total_jobs_lost, wait_times,
                   jobs_completed, slot, outcomes, result, random_draws, drawn>>

PairStepLow == PairStep("low")

PairStepHigh == PairStep("high")

PairNext == PairStepLow \/ PairStepHigh

PairSpec == PairInit /\ [][PairNext]_vars

\* ---- properties ----
\* ceil(a / b) for positive b
CeilDiv(a, b) == (a + b - 1) \div b

\* the number of queue sizes of the sweep
SweepLength == IF args.max_queue_size >= args.min_queue_size
               THEN args.max_queue_size - args.min_queue_size + 1 ELSE 0

\* C1: in every round jobs_completed is in 0 .. queue_size, the round adds
\* jobs_completed to the completed total and queue_size - jobs_completed to the
\* lost total, and after n rounds the two totals add up to n * queue_size.
C1_RoundAccounting ==
    [][pc = "account" =>
         /\ jobs_completed \in 0 .. queue_size
         /\ total_jobs_completed' - total_jobs_completed = jobs_completed
         /\ (total_jobs_lost' - total_jobs_lost) + jobs_completed = queue_size
         /\ total_jobs_completed' + total_jobs_lost' = Len(outcomes') * queue_size]_vars

C1_Witness ==
    /\ pc = "while"
    /\ Len(outcomes) >= 2
    /\ total_jobs_completed > 0
    /\ total_jobs_lost > 0

\* C2: when the loop is left the number of rounds executed is
\* ceil(sim_duration / job_duration) and total_time is rounds * job_duration.
C2_RoundCount ==
    pc = "aggregate" =>
        /\ Len(outcomes) = CeilDiv(sim_duration, job_duration)
        /\ total_time = Len(outcomes) * job_duration

C2_Witness ==
    /\ pc = "aggregate"
    /\ sim_duration % job_duration # 0
    /\ Len(outcomes) >= 2

C2_WitnessExact ==
    /\ pc = "aggregate"
    /\ sim_duration % job_duration = 0
    /\ Len(outcomes) >= 1

\* C3: with failure_probability = 0 every round completes all queue_size slots
\* whatever the draws are: no job is lost, the completed total is
\* rounds * queue_size and the throughput is round(queue_size / job_duration * 60, 1).
C3_ZeroProbabilityNeverFails ==
    (calls # <<>> /\ failure_probability = 0) =>
        /\ \A i \in DOMAIN outcomes : outcomes[i] = queue_size
        /\ total_jobs_lost = 0
        /\ total_jobs_completed = Len(outcomes) * queue_size
        /\ (pc = "row" => result[1] = Round1(Frac(queue_size * 60, job_duration)))

\* C4: with failure_probability = 1 every round completes zero slots, the list
\* of wait times stays empty, and the call ends in the error of statistics.mean
\* instead of returning a result tuple.
C4_CertainFailureRaises ==
    (calls # <<>> /\ failure_probability = ProbDen) =>
        /\ jobs_completed = 0
        /\ \A i \in DOMAIN outcomes : outcomes[i] = 0
        /\ total_jobs_completed = 0
        /\ wait_times = <<>>
        /\ pc \notin {"row", "for", "done"}
        /\ result = <<>>
        /\ rows = <<>>
        /\ (pc = "raised" => exception = "StatisticsError")

C4_Witness ==
    /\ pc = "raised"
    /\ exception = "StatisticsError"
    /\ failure_probability = ProbDen
    /\ Len(outcomes) >= 2

\* C5: with jobs_waiting_to_enter_probability = 1 every wait time that is
\* recorded is the one of a line of queue_size + jobs_waiting_to_enter jobs:
\* wait time * jobs_completed = (queue_size + jobs_waiting_to_enter) * job_duration.
C5_OverflowAlwaysCounted ==
    [][(pc = "account" /\ jobs_completed > 0
          /\ jobs_waiting_to_enter_probability = ProbDen) =>
         /\ Len(wait_times') = Len(wait_times) + 1
         /\ LET w == wait_times'[Len(wait_times')]
            IN  w[1] * jobs_completed
                  = (queue_size + jobs_waiting_to_enter) * job_duration * w[2]]_vars

C5_Witness ==
    /\ calls # <<>>
    /\ jobs_waiting_to_enter_probability = ProbDen
    /\ jobs_waiting_to_enter > 0
    /\ Len(wait_times) >= 2

\* C6: the number of wait times recorded is the number of finished rounds with
\* jobs_completed > 0; it is at most the number of rounds, and less than it as
\* soon as a round completed nothing.
C6_WaitTimesPerRound ==
    /\ Len(wait_times) = Cardinality({i \in DOMAIN outcomes : outcomes[i] > 0})
    /\ Len(wait_times) <= Len(outcomes)
    /\ (\E i \in DOMAIN outcomes : outcomes[i] = 0) => Len(wait_times) < Len(outcomes)

C6_Witness ==
    /\ Len(outcomes) >= 2
    /\ Len(wait_times) >= 1
    /\ Len(wait_times) < Len(outcomes)

\* C7: the sweep calls simulate_throughput once per queue size from
\* min_queue_size to max_queue_size, ascending, always with sim_duration * 60
\* and the same other arguments, and logs one row per queue size in that order;
\* none at all when min_queue_size > max_queue_size.
C7_SweepOrder ==
    /\ Len(calls) <= SweepLength
    /\ \A i \in DOMAIN calls :
         calls[i] = <<args.min_queue_size + i - 1, args.sim_duration * 60,
                      args.job_duration, args.failure_probability,
                      args.jobs_waiting_to_enter,
                      args.jobs_waiting_to_enter_probability>>
    /\ Len(rows) <= Len(calls)
    /\ \A i \in DOMAIN rows : rows[i][1] = calls[i][1]
    /\ pc = "done" => (Len(calls) = SweepLength /\ Len(rows) = SweepLength)

C7_Witness ==
    /\ pc = "done"
    /\ Len(rows) >= 2

C7_WitnessEmpty ==
    /\ pc = "done"
    /\ args.min_queue_size > args.max_queue_size

\* C8: when a probability is outside [0,1] main raises the ValueError before
\* any call of simulate_throughput and before the header or a row is logged.
C8_ConfigurationError ==
    (\/ args.failure_probability < 0
     \/ args.failure_probability > ProbDen
     \/ args.jobs_waiting_to_enter_probability < 0
     \/ args.jobs_waiting_to_enter_probability > ProbDen) =>
        /\ pc \in {"validate", "raised"}
        /\ pc = "raised" => exception = "ValueError"
        /\ calls = <<>>
        /\ outcomes = <<>>
        /\ random_draws = 0
        /\ ~header
        /\ rows = <<>>
        /\ result = <<>>

C8_Witness ==
    /\ pc = "raised"
    /\ exception = "ValueError"
    /\ args.failure_probability \in 0 .. ProbDen
    /\ args.jobs_waiting_to_enter_probability > ProbDen

\* C9: a call that leaves the loop with no wait time recorded raises the
\* StatisticsError, which ends main: no row is logged for that queue size, no
\* result is returned and no further queue size is simulated.
C9_NoDataEndsSweep ==
    [][/\ pc # "raised"
       /\ (pc = "aggregate" /\ wait_times = <<>>) =>
            /\ pc' = "raised"
            /\ exception' = "StatisticsError"
            /\ rows' = rows
            /\ result' = result
            /\ calls' = calls]_vars

C9_Witness ==
    /\ pc = "raised"
    /\ exception = "StatisticsError"
    /\ failure_probability < ProbDen
    /\ Len(outcomes) >= 2
    /\ idx < Len(queue_sizes)

C9_WitnessAfterRow ==
    /\ pc = "raised"
    /\ exception = "StatisticsError"
    /\ Len(rows) >= 1

\* C10 as stated: nothing mutable is carried from one call into the next, the
\* values consumed from the random source included.
C10_NothingShared ==
    (pc = "while" /\ outcomes = <<>>) =>
        /\ total_jobs_completed = 0
        /\ total_time = 0
        /\ total_jobs_lost = 0
        /\ wait_times = <<>>
        /\ random_draws = 0

\* C10 as amended: every call starts with fresh accumulators, while the random
\* source is the generator of the process and goes on where the call before
\* left it.
C10_FreshAccumulators ==
    [][(pc = "for" /\ pc' = "while") =>
         /\ total_jobs_completed' = 0
         /\ total_time' = 0
         /\ total_jobs_lost' = 0
         /\ wait_times' = <<>>
         /\ outcomes' = <<>>
         /\ random_draws' = random_draws]_vars

C10_Witness ==
    /\ pc = "while"
    /\ outcomes = <<>>
    /\ Len(calls) = 2
    /\ random_draws > 0

\* C11 as stated: of two calls with the same arguments and the same sequence of
\* draws, the one with the larger failure_probability completes no more jobs
\* (and so has no larger throughput) than the other.
C11_MonotoneTotals ==
    (pc = "pair" /\ LoopLeft(pair.low) /\ LoopLeft(pair.high)) =>
        /\ pair.high.total_jobs_completed <= pair.low.total_jobs_completed
        /\ (RunOver(pair.low) /\ RunOver(pair.high)) =>
              pair.high.throughput <= pair.low.throughput

\* C11 as amended: the two calls agree round by round until the first round
\* whose outcomes differ, and in that round the call with the larger
\* failure_probability completes fewer jobs.
C11_MonotoneUntilDiverged ==
    pc = "pair" =>
        \A k \in DOMAIN pair.low.outcomes \cap DOMAIN pair.high.outcomes :
            (\A i \in 1 .. (k - 1) : pair.low.outcomes[i] = pair.high.outcomes[i])
                => pair.high.outcomes[k] <= pair.low.outcomes[k]

C11_Witness ==
    /\ pc = "pair"
    /\ LoopLeft(pair.low)
    /\ LoopLeft(pair.high)
    /\ Len(pair.low.outcomes) >= 2
    /\ pair.high.outcomes[1] < pair.low.outcomes[1]
    /\ pair.high.outcomes[2] > pair.low.outcomes[2]

\* C12: the round loop of every call ends: elapsed time grows by exactly
\* job_duration in every round, bounced rounds included, a scan makes at most
\* queue_size draws, and the call reaches its result or the StatisticsError.
C12_LoopTerminates ==
    /\ [][pc = "account" => total_time' = total_time + job_duration]_vars
    /\ [](Len(drawn) <= queue_size)
    /\ (pc = "while") ~> (pc \in {"row", "raised"})

C12_Witness ==
    /\ pc \in {"row", "raised"}
    /\ Len(outcomes) >= 2
    /\ \E i \in DOMAIN outcomes : outcomes[i] = 0

\* C13: the slots are scanned in order with one draw each; a slot fails iff its
\* draw is at or below failure_probability, the scan stops at the first failing
\* slot, and jobs_completed is the number of slots scanned before it, or
\* queue_size when no slot failed.
C13_HeadOfLine ==
    /\ pc = "scan" =>
         /\ Len(drawn) = jobs_completed
         /\ slot = jobs_completed + 1
         /\ \A i \in DOMAIN drawn : drawn[i] > failure_probability
    /\ pc = "account" =>
         /\ \A i \in 1 .. jobs_completed : drawn[i] > failure_probability
         /\ IF jobs_completed < queue_size
            THEN /\ Len(drawn) = jobs_completed + 1
                 /\ drawn[Len(drawn)] <= failure_probability
            ELSE /\ Len(drawn) = queue_size
                 /\ jobs_completed = queue_size

C13_Witness ==
    /\ pc = "account"
    /\ jobs_completed >= 1
    /\ jobs_completed < queue_size

C14_WitnessSingle ==
    /\ pc = "while"
    /\ queue_size = 1
    /\ jobs_waiting_to_enter = 0
    /\ Len(outcomes) >= 2
    /\ Len(wait_times) = 1

\* C15: a round whose first slot fails adds queue_size to the lost total and
\* job_duration to the elapsed time and nothing else: no wait time, no draw
\* for the overflow; a round with completions makes exactly one overflow draw,
\* after its slot draws.
C15_BouncedRound ==
    [][pc = "account" =>
         IF jobs_completed = 0
         THEN /\ total_jobs_lost' = total_jobs_lost + queue_size
              /\ total_time' = total_time + job_duration
              /\ total_jobs_completed' = total_jobs_completed
              /\ wait_times' = wait_times
              /\ random_draws' = random_draws
         ELSE /\ random_draws' = random_draws + 1
              /\ Len(wait_times') = Len(wait_times) + 1
              /\ Len(drawn) >= jobs_completed]_vars

C15_Witness ==
    /\ pc = "while"
    /\ \E i \in DOMAIN outcomes : outcomes[i] = 0
    /\ \E i \in DOMAIN outcomes : outcomes[i] > 0

\* C16: with jobs_waiting_to_enter_probability = 0 no wait time is inflated,
\* whatever the draws are: every recorded wait time is the one of a line of
\* exactly queue_size jobs.
C16_NoOverflowAtZero ==
    [][(pc = "account" /\ jobs_completed > 0
          /\ jobs_waiting_to_enter_probability = 0) =>
         LET w == wait_times'[Len(wait_times')]
         IN  w[1] * jobs_completed = queue_size * job_duration * w[2]]_vars

\* C17: when the loop is left sim_duration <= total_time < sim_duration +
\* job_duration; total_time is always a multiple of job_duration; the
\* denominator of the two rates is not zero.
C17_ElapsedTime ==
    calls # <<>> =>
        /\ total_time % job_duration = 0
        /\ total_time = Len(outcomes) * job_duration
        /\ pc \in {"aggregate", "row"} =>
             /\ sim_duration <= total_time
             /\ total_time < sim_duration + job_duration
             /\ total_time > 0

C17_Witness ==
    /\ pc = "aggregate"
    /\ total_time > sim_duration
    /\ Len(outcomes) >= 2


====
